---- MODULE Spec2Model ----
(***************************************************************************)
(* Job lifecycle of the call-audio processing worker.                      *)
(*                                                                         *)
(* The submission API creates a job row (status queued) and publishes one  *)
(* descriptor; the NATS callback of the worker process puts decoded        *)
(* descriptors on the buffered channel jobCh; a pool of worker goroutines  *)
(* drains jobCh and runs processSingleJob, which calls audio.ProcessFile,  *)
(* the object store and the job store.  Every blocking call of             *)
(* processSingleJob / ProcessFile is one step of the model, so that a      *)
(* timer, the shutdown signal or a database outage can fall between any    *)
(* two of them.                                                            *)
(***************************************************************************)
EXTENDS Naturals, Integers, Sequences, FiniteSets, TLC

\* ------------------------------------------------------------------ bounds
NumJobs == 1
NumWorkers == 2
QueueCap == 1
MaxFaults == 1

Jobs == 1..NumJobs
Workers == 1..NumWorkers

\* the id of a descriptor whose id field is no UUID
BadId == 0

\* the id that stands for a payload json.Unmarshal rejects
NoId == -1

\* denoise_method values a descriptor carries
Methods == {"afftdn", "noisereduce"}

\* diagnostic texts the engine may leave on stderr when the apply pass fails
Diags == {"diagA", "diagB"}

VARIABLES
    status,      \* audio_jobs.status per job ("none": no row yet)
    progress,    \* audio_jobs.progress per job
    errorMsg,    \* audio_jobs.error_msg per job
    s3ref,       \* audio_jobs.s3_bucket/s3_key/s3_version_id per job
    meta,        \* audio_jobs.duration_sec/loudness_json/... per job
    progLog,     \* history: the successive values progress[j] has taken
    applyRuns,   \* history: the apply-pass invocations of the engine per job
    uploads,     \* history: the upload attempts per job
    observed,    \* history: the success flags metrics.ObserveJob received
    enq,         \* history: how often a descriptor of the job entered jobCh
    nats,        \* messages published on audio.jobs, not yet handled
    jobCh,       \* the buffered channel of descriptors
    cancelled,   \* the worker loop's outer context is cancelled
    rejects,     \* number of statements the database refused so far
    faults,      \* number of things that went wrong so far
    pc,          \* per worker: the step it is about to take
    jm,          \* per worker: the descriptor it holds
    err,         \* per worker: the error value of its last call
    dead,        \* per worker: which of its timeout contexts have expired
    input,       \* per worker: ProcessFile's inputPathAbs
    dnErr,       \* per worker: runNoisereduce returned an error
    loudnessMap, \* per worker: ProcessFile's first-pass loudness map
    stats,       \* per worker: where stats.Loudness came from
    calc         \* a function of the audio package under evaluation

storeVars == <<status, progress, errorMsg, s3ref, meta>>
histVars == <<progLog, applyRuns, uploads, observed, enq>>
queueVars == <<nats, jobCh>>
envVars == <<cancelled, rejects, faults>>
workerVars == <<pc, jm, err, dead, input, dnErr, loudnessMap, stats>>
lifecycleVars == <<storeVars, histVars, queueVars, envVars, workerVars>>
vars == <<lifecycleVars, calc>>

\* ------------------------------------------------------------ values
NoError == [kind |-> "nil", text |-> ""]
NoJob == [id |-> BadId, method |-> "", path |-> ""]
NoMsg == [kind |-> "null", text |-> ""]

\* a variant of the parse that accepts every id
AnyUUID(id) == TRUE

\* no function of the audio package is evaluated on its own
NoCalc == [fn |-> "none", done |-> TRUE]

\* uuid.Parse: only the ids the store issued are well formed
ValidUUID(id) == id \in Jobs

\* the timeout contexts of processSingleJob
Ctxs == {"proc", "snr", "upload"}

\* a context is live while neither it nor the outer context is done
Live(w, c) ==
    /\ ~cancelled
    /\ (c \in Ctxs => c \notin dead[w])

\* whether one more thing may go wrong
MayFail == faults < MaxFaults

\* the outcomes of an external command run under context c: with a dead
\* context it fails, with a live one it may succeed or fail
CmdOutcomes(w, c) ==
    IF Live(w, c)
    THEN {TRUE} \cup (IF MayFail THEN {FALSE} ELSE {})
    ELSE {FALSE}

\* a failure under a live context is one more thing that went wrong
Charge(w, c, ok) ==
    /\ faults' = IF ~ok /\ Live(w, c) THEN faults + 1 ELSE faults
    /\ UNCHANGED <<cancelled, rejects>>

\* a variant in which the statements do not take the caller's context
ExecOutcomesDetached(w, c) == {TRUE} \cup (IF MayFail THEN {FALSE} ELSE {})

\* pgxpool.Exec under context c: with a dead context the statement is not
\* applied, with a live one the database applies it or refuses it
ExecOutcomes(w, c) == CmdOutcomes(w, c)

\* a statement refused under a live context is a refusal of the database
ChargeExec(w, c, ok) ==
    /\ faults' = IF ~ok /\ Live(w, c) THEN faults + 1 ELSE faults
    /\ rejects' = IF ~ok /\ Live(w, c) THEN rejects + 1 ELSE rejects
    /\ UNCHANGED cancelled

\* the outcomes of an engine run that reads the descriptor's input file: it
\* fails when input_path is empty
InputOutcomes(w, c) ==
    IF jm[w].path = "" THEN {FALSE} ELSE CmdOutcomes(w, c)

\* a failure on a readable input under a live context is one more thing
\* that went wrong
ChargeInput(w, c, ok) ==
    /\ faults' = IF ~ok /\ Live(w, c) /\ jm[w].path # ""
                 THEN faults + 1 ELSE faults
    /\ UNCHANGED <<cancelled, rejects>>

\* ------------------------------------------------------------ store
\* UPDATE audio_jobs SET progress=$2
StoreProgress(j, v) ==
    /\ progress' = [progress EXCEPT ![j] = v]
    /\ progLog' = [progLog EXCEPT ![j] =
                      IF progress[j] = v THEN @ ELSE Append(@, v)]

\* Store.SetStarted
SetStartedRow(j) == status' = [status EXCEPT ![j] = "processing"]

\* Store.UpdateProgress
UpdateProgressRow(j, v) == StoreProgress(j, v)

\* a variant of the statement that sets the status and leaves the progress
SetFinishedRowStatusOnly(j) ==
    /\ status' = [status EXCEPT ![j] = "done"]
    /\ UNCHANGED <<progress, progLog>>

\* Store.SetFinished
SetFinishedRow(j) ==
    /\ status' = [status EXCEPT ![j] = "done"]
    /\ StoreProgress(j, 100)

\* a variant of the statement that stores the message and leaves the status
SetFailedRowMessageOnly(j, msg) ==
    /\ status' = status
    /\ errorMsg' = [errorMsg EXCEPT ![j] = msg]

\* Store.SetFailed
SetFailedRow(j, msg) ==
    /\ status' = [status EXCEPT ![j] = "failed"]
    /\ errorMsg' = [errorMsg EXCEPT ![j] = msg]

\* Store.UpdateJobStorage
UpdateJobStorageRow(j) == s3ref' = [s3ref EXCEPT ![j] = "set"]

\* Store.UpdateJobMetadata
UpdateJobMetadataRow(j, loud) == meta' = [meta EXCEPT ![j] = loud]

\* ------------------------------------------------------------ init
Boot ==
    /\ status = [j \in Jobs |-> "none"]
    /\ progress = [j \in Jobs |-> 0]
    /\ errorMsg = [j \in Jobs |-> NoMsg]
    /\ s3ref = [j \in Jobs |-> "null"]
    /\ meta = [j \in Jobs |-> "null"]
    /\ progLog = [j \in Jobs |-> <<>>]
    /\ applyRuns = [j \in Jobs |-> <<>>]
    /\ uploads = [j \in Jobs |-> <<>>]
    /\ observed = [j \in Jobs |-> <<>>]
    /\ enq = [j \in Jobs |-> 0]
    /\ nats = <<>>
    /\ jobCh = <<>>
    /\ cancelled = FALSE
    /\ rejects = 0
    /\ faults = 0
    /\ pc = [w \in Workers |-> "idle"]
    /\ jm = [w \in Workers |-> NoJob]
    /\ err = [w \in Workers |-> NoError]
    /\ dead = [w \in Workers |-> {}]
    /\ input = [w \in Workers |-> ""]
    /\ dnErr = [w \in Workers |-> FALSE]
    /\ loudnessMap = [w \in Workers |-> "nil"]
    /\ stats = [w \in Workers |-> "none"]

Init == Boot /\ calc = NoCalc

\* ------------------------------------------------------------ helpers
Goto(w, l) == pc' = [pc EXCEPT ![w] = l]

\* the locals of ProcessFile go out of scope when it returns
ResetProcessFileLocals(w) ==
    /\ input' = [input EXCEPT ![w] = ""]
    /\ dnErr' = [dnErr EXCEPT ![w] = FALSE]
    /\ loudnessMap' = [loudnessMap EXCEPT ![w] = "nil"]

\* processSingleJob returns: its locals and contexts go out of scope
ReturnToLoop(w) ==
    /\ Goto(w, "idle")
    /\ jm' = [jm EXCEPT ![w] = NoJob]
    /\ err' = [err EXCEPT ![w] = NoError]
    /\ dead' = [dead EXCEPT ![w] = {}]
    /\ stats' = [stats EXCEPT ![w] = "none"]

\* err.Error() of the error ProcessFile returned
ErrorText(e) == e

\* "s3 upload failed: " + err.Error()
UploadFailedText(e) == [kind |-> "s3 upload failed", text |-> e.text]

\* the steps that run a call under each timeout context; a deadline that
\* passes elsewhere is noticed by the next of these
CtxRange(c) ==
    CASE c = "snr" -> {"EstBefore", "EstAfter"}
      [] c = "proc" -> {"MeasBefore", "NoiseLevel", "Noisereduce",
                        "PreMeasure", "Apply", "Duration", "PostMeasure",
                        "MeasAfter", "P70", "FailApply"}
      [] c = "upload" -> {"Upload", "Storage", "Meta", "Presign", "P100",
                          "Finished", "FailUpload"}

\* ------------------------------------------------------------ environment
\* submitHandler: CreateJob, then publish the descriptor once
Submit(j, m) ==
    /\ status[j] = "none"
    /\ \A i \in Jobs : i < j => status[i] # "none"
    /\ status' = [status EXCEPT ![j] = "queued"]
    /\ \E published \in {TRUE} \cup (IF MayFail THEN {FALSE} ELSE {}) :
          /\ nats' = IF published
                     THEN Append(nats, [id |-> j, method |-> m, path |-> "in"])
                     ELSE nats
          /\ faults' = IF published THEN faults ELSE faults + 1
    /\ UNCHANGED <<progress, errorMsg, s3ref, meta, histVars, jobCh,
                   cancelled, rejects, workerVars>>
    /\ UNCHANGED calc

\* a payload that is no JSON object of the descriptor's shape
Undecodable == [id |-> NoId, method |-> "", path |-> ""]

\* json.Unmarshal(msg.Data, &jm) succeeds
Decodes(msg) == msg # Undecodable

\* the messages another client of the subject may publish: a descriptor
\* whose id is no UUID, one for a job row that carries an empty input_path,
\* or a payload that does not decode
Foreign ==
    {[id |-> BadId, method |-> "afftdn", path |-> "in"]}
        \cup {[id |-> j, method |-> "afftdn", path |-> ""] : j \in Jobs}
        \cup {Undecodable}

\* a message on audio.jobs that submitHandler did not build; a descriptor
\* with a well-formed id names a row of audio_jobs, created as queued
PublishForeign(d) ==
    /\ MayFail
    /\ d.id \in Jobs =>
          /\ status[d.id] = "none"
          /\ \A i \in Jobs : i < d.id => status[i] # "none"
    /\ status' = IF d.id \in Jobs
                 THEN [status EXCEPT ![d.id] = "queued"] ELSE status
    /\ nats' = Append(nats, d)
    /\ faults' = faults + 1
    /\ UNCHANGED <<progress, errorMsg, s3ref, meta, histVars, jobCh,
                   cancelled, rejects, workerVars>>
    /\ UNCHANGED calc

\* a variant of the callback that gives up on a full channel
DispatchOrDrop ==
    /\ nats # <<>>
    /\ IF Decodes(Head(nats)) /\ Len(jobCh) < QueueCap
       THEN /\ jobCh' = Append(jobCh, Head(nats))
            /\ enq' = IF Head(nats).id \in Jobs
                      THEN [enq EXCEPT ![Head(nats).id] = @ + 1]
                      ELSE enq
       ELSE UNCHANGED <<jobCh, enq>>
    /\ nats' = Tail(nats)
    /\ UNCHANGED <<storeVars, progLog, applyRuns, uploads, observed,
                   envVars, workerVars>>
    /\ UNCHANGED calc

\* the subscription callback: decode, then send on jobCh (blocks when full);
\* a payload that does not decode is logged and dropped
Dispatch ==
    /\ nats # <<>>
    /\ IF Decodes(Head(nats))
       THEN /\ Len(jobCh) < QueueCap
            /\ jobCh' = Append(jobCh, Head(nats))
            /\ enq' = IF Head(nats).id \in Jobs
                      THEN [enq EXCEPT ![Head(nats).id] = @ + 1]
                      ELSE enq
       ELSE UNCHANGED <<jobCh, enq>>
    /\ nats' = Tail(nats)
    /\ UNCHANGED <<storeVars, progLog, applyRuns, uploads, observed,
                   envVars, workerVars>>
    /\ UNCHANGED calc

\* SIGINT/SIGTERM: main returns and the deferred cancel() runs
Cancel ==
    /\ ~cancelled
    /\ MayFail
    /\ cancelled' = TRUE
    /\ faults' = faults + 1
    /\ UNCHANGED <<storeVars, histVars, queueVars, rejects, workerVars>>
    /\ UNCHANGED calc

\* the deadline of one of the worker's timeout contexts passes
Timeout(w, c) ==
    /\ pc[w] \in CtxRange(c)
    /\ c \notin dead[w]
    /\ MayFail
    /\ dead' = [dead EXCEPT ![w] = @ \cup {c}]
    /\ faults' = faults + 1
    /\ UNCHANGED <<storeVars, histVars, queueVars, cancelled, rejects, pc, jm, err,
                   input, dnErr, loudnessMap, stats>>
    /\ UNCHANGED calc

\* ------------------------------------------------------------ worker loop
\* a variant of the receive that leaves the descriptor on the channel
ReceiveNoDequeue(w) ==
    /\ pc[w] = "idle"
    /\ jobCh # <<>>
    /\ jobCh' = jobCh
    /\ IF ValidUUID(Head(jobCh).id)
       THEN /\ Goto(w, "SetStarted")
            /\ jm' = [jm EXCEPT ![w] = Head(jobCh)]
       ELSE UNCHANGED <<pc, jm>>
    /\ UNCHANGED <<storeVars, histVars, nats, envVars, err, dead,
                   input, dnErr, loudnessMap, stats>>
    /\ UNCHANGED calc

\* worker: select { case jm := <-jobCh: processSingleJob(...) }, up to and
\* including uuid.Parse; Go's select may take this case although ctx is done.
\* The goroutines run the same code and a waiting one holds no state of its
\* own: of the waiting workers the first is taken to be the one that
\* receives
Receive(w) ==
    /\ pc[w] = "idle"
    /\ jobCh # <<>>
    /\ \A v \in Workers : v < w => pc[v] # "idle"
    /\ jobCh' = Tail(jobCh)
    /\ IF ValidUUID(Head(jobCh).id)
       THEN /\ Goto(w, "SetStarted")
            /\ jm' = [jm EXCEPT ![w] = Head(jobCh)]
       ELSE UNCHANGED <<pc, jm>>
    /\ UNCHANGED <<storeVars, histVars, nats, envVars, err, dead,
                   input, dnErr, loudnessMap, stats>>
    /\ UNCHANGED calc

\* worker: select { case <-ctx.Done(): return }
WorkerExit(w) ==
    /\ pc[w] = "idle"
    /\ cancelled
    /\ Goto(w, "exited")
    /\ UNCHANGED <<storeVars, histVars, queueVars, envVars, jm, err, dead,
                   input, dnErr, loudnessMap, stats>>
    /\ UNCHANGED calc

\* st.SetStarted(ctx, jobUUID): an error is logged, processing goes on
SetStarted(w) ==
    /\ pc[w] = "SetStarted"
    /\ \E ok \in ExecOutcomes(w, "ctx") :
          /\ IF ok THEN SetStartedRow(jm[w].id) ELSE UNCHANGED status
          /\ ChargeExec(w, "ctx", ok)
    /\ Goto(w, "P10")
    /\ UNCHANGED <<progress, errorMsg, s3ref, meta, histVars, queueVars, jm,
                   err, dead, input, dnErr, loudnessMap, stats>>
    /\ UNCHANGED calc

\* _ = st.UpdateProgress(c, jobUUID, v): the error is discarded
ProgressStep(w, c, v, from, to) ==
    /\ pc[w] = from
    /\ \E ok \in ExecOutcomes(w, c) :
          /\ IF ok
             THEN UpdateProgressRow(jm[w].id, v)
             ELSE UNCHANGED <<progress, progLog>>
          /\ ChargeExec(w, c, ok)
    /\ Goto(w, to)
    /\ UNCHANGED <<status, errorMsg, s3ref, meta, applyRuns, uploads,
                   observed, enq, queueVars, jm, err, dead, input, dnErr,
                   loudnessMap, stats>>
    /\ UNCHANGED calc

P10(w) == ProgressStep(w, "ctx", 10, "P10", "P20")

\* progress 20, then procCtx and snrCtx are created
P20(w) == ProgressStep(w, "ctx", 20, "P20", "EstBefore")

\* a variant that turns a failed estimate into a failed job
AfterEstimateFatal(w, ok, to) ==
    IF ok
    THEN /\ err' = [err EXCEPT ![w] = NoError]
         /\ Goto(w, to)
    ELSE /\ err' = [err EXCEPT ![w] = [kind |-> "quality", text |-> ""]]
         /\ Goto(w, "FailApply")

\* what processSingleJob does with the result of audio.EstimateQuality:
\* the error is logged, the SNR falls back to 0.0
AfterEstimate(w, ok, to) ==
    /\ err' = [err EXCEPT ![w] =
                  IF ok THEN NoError ELSE [kind |-> "quality", text |-> ""]]
    /\ Goto(w, to)

\* audio.EstimateQuality(snrCtx, ...)
EstimateStep(w, from, to) ==
    /\ pc[w] = from
    /\ \E ok \in IF from = "EstBefore"
                  THEN InputOutcomes(w, "snr") ELSE CmdOutcomes(w, "snr") :
          /\ AfterEstimate(w, ok, to)
          /\ IF from = "EstBefore"
             THEN ChargeInput(w, "snr", ok) ELSE Charge(w, "snr", ok)
    /\ UNCHANGED <<storeVars, histVars, queueVars, jm, dead, input, dnErr,
                   loudnessMap, stats>>
    /\ UNCHANGED calc

EstBefore(w) == EstimateStep(w, "EstBefore", "MeasBefore")

\* what processSingleJob does with the result of audio.MeasureLoudness:
\* loudMap, _ := ..., the error is discarded
AfterMeasure(w, ok, to) == Goto(w, to)

\* audio.MeasureLoudness(procCtx, ...)
MeasureStep(w, from, to) ==
    /\ pc[w] = from
    /\ \E ok \in BOOLEAN :
          /\ ok => Live(w, "proc")
          /\ AfterMeasure(w, ok, to)
    /\ UNCHANGED <<storeVars, histVars, queueVars, envVars, jm, err, dead,
                   input, dnErr, loudnessMap, stats>>
    /\ UNCHANGED calc

MeasBefore(w) == MeasureStep(w, "MeasBefore", "LookPath")

\* ------------------------------------------------------------ ProcessFile
\* a variant that runs the apply pass again after an error
ProcessFileRetries(w, e) ==
    /\ err' = [err EXCEPT ![w] = e]
    /\ Goto(w, "Apply")
    /\ UNCHANGED <<input, dnErr, loudnessMap>>

\* ProcessFile returns (nil, e); processSingleJob goes to its SetFailed
ProcessFileFails(w, e) ==
    /\ err' = [err EXCEPT ![w] = e]
    /\ Goto(w, "FailApply")
    /\ ResetProcessFileLocals(w)

\* exec.LookPath("ffmpeg"), exec.LookPath("ffprobe")
LookPath(w) ==
    /\ pc[w] = "LookPath"
    /\ \E found \in {TRUE} \cup (IF MayFail THEN {FALSE} ELSE {}) :
          /\ IF found
             THEN /\ Goto(w, "NoiseLevel")
                  /\ input' = [input EXCEPT ![w] = "orig"]
                  /\ UNCHANGED <<err, dnErr, loudnessMap>>
             ELSE ProcessFileFails(w,
                      [kind |-> "binary not found", text |-> ""])
          /\ faults' = IF found THEN faults ELSE faults + 1
    /\ UNCHANGED <<storeVars, histVars, queueVars, cancelled, rejects, jm,
                   dead, stats>>
    /\ UNCHANGED calc

\* what ProcessFile does with the result of GetNoiseLevel; on success the
\* denoise filter is chosen next
AfterNoiseLevel(w, ok) ==
    IF ok
    THEN /\ Goto(w, IF jm[w].method = "noisereduce"
                    THEN "Noisereduce" ELSE "PreMeasure")
         /\ UNCHANGED <<err, input, dnErr, loudnessMap>>
    ELSE ProcessFileFails(w, [kind |-> "GetNoiseLevel", text |-> ""])

\* GetNoiseLevel(ctx, inputPathAbs)
NoiseLevel(w) ==
    /\ pc[w] = "NoiseLevel"
    /\ \E ok \in InputOutcomes(w, "proc") :
          /\ AfterNoiseLevel(w, ok)
          /\ ChargeInput(w, "proc", ok)
    /\ UNCHANGED <<storeVars, histVars, queueVars, jm, dead, stats>>
    /\ UNCHANGED calc

\* a variant in which a failed denoiser makes ProcessFile return the error
AfterNoisereduceFatal(w, ok) ==
    IF ok
    THEN /\ input' = [input EXCEPT ![w] = "denoised"]
         /\ Goto(w, "PreMeasure")
         /\ UNCHANGED <<err, dnErr, loudnessMap>>
    ELSE /\ err' = [err EXCEPT ![w] = [kind |-> "noisereduce", text |-> ""]]
         /\ Goto(w, "FailApply")
         /\ ResetProcessFileLocals(w)

\* a variant that takes the path runNoisereduce returned even with an error
AfterNoisereduceAnyPath(w, ok) ==
    /\ input' = [input EXCEPT ![w] = IF ok THEN "denoised" ELSE ""]
    /\ dnErr' = [dnErr EXCEPT ![w] = ~ok]
    /\ Goto(w, "PreMeasure")
    /\ UNCHANGED <<err, loudnessMap>>

\* what ProcessFile does with the result of runNoisereduce
AfterNoisereduce(w, ok) ==
    /\ input' = [input EXCEPT ![w] = IF ok THEN "denoised" ELSE "orig"]
    /\ dnErr' = [dnErr EXCEPT ![w] = ~ok]
    /\ Goto(w, "PreMeasure")
    /\ UNCHANGED <<err, loudnessMap>>

\* runNoisereduce(ctx, inputPathAbs, 1.0, ""), under its own 2 min timeout
Noisereduce(w) ==
    /\ pc[w] = "Noisereduce"
    /\ \E ok \in CmdOutcomes(w, "proc") :
          /\ AfterNoisereduce(w, ok)
          /\ Charge(w, "proc", ok)
    /\ UNCHANGED <<storeVars, histVars, queueVars, jm, dead, stats>>
    /\ UNCHANGED calc

\* what ProcessFile does with the result of its first MeasureLoudness
AfterPreMeasure(w, ok) ==
    /\ loudnessMap' = [loudnessMap EXCEPT ![w] = IF ok THEN "pre" ELSE "nil"]
    /\ Goto(w, "Apply")
    /\ UNCHANGED <<err, input, dnErr>>

\* loudnessMap, _ := MeasureLoudness(ctx, inputPathAbs, ...)
PreMeasure(w) ==
    /\ pc[w] = "PreMeasure"
    /\ \E ok \in CmdOutcomes(w, "proc") :
          /\ AfterPreMeasure(w, ok)
          /\ Charge(w, "proc", ok)
    /\ UNCHANGED <<storeVars, histVars, queueVars, jm, dead, stats>>
    /\ UNCHANGED calc

\* the apply pass: exec.CommandContext(ctx, ffmpeg, "-i", inputPathAbs, ...)
Apply(w) ==
    /\ pc[w] = "Apply"
    /\ \E ok \in CmdOutcomes(w, "proc") :
          /\ IF ok
             THEN /\ applyRuns' = [applyRuns EXCEPT ![jm[w].id] =
                         Append(@, [input |-> input[w], ok |-> TRUE,
                                    stderr |-> ""])]
                  /\ Goto(w, "Duration")
                  /\ UNCHANGED <<err, input, dnErr, loudnessMap>>
             ELSE \E d \in Diags :
                  /\ applyRuns' = [applyRuns EXCEPT ![jm[w].id] =
                         Append(@, [input |-> input[w], ok |-> FALSE,
                                    stderr |-> d])]
                  /\ ProcessFileFails(w,
                         [kind |-> "ffmpeg apply failed", text |-> d])
          /\ Charge(w, "proc", ok)
    /\ UNCHANGED <<storeVars, progLog, uploads, observed, enq, queueVars,
                   jm, dead, stats>>
    /\ UNCHANGED calc

\* GetDuration(ctx, outputPathAbs): an error leaves DurationSec 0
Duration(w) ==
    /\ pc[w] = "Duration"
    /\ \E ok \in BOOLEAN : ok => Live(w, "proc")
    /\ Goto(w, "PostMeasure")
    /\ UNCHANGED <<storeVars, histVars, queueVars, envVars, jm, err, dead,
                   input, dnErr, loudnessMap, stats>>
    /\ UNCHANGED calc

\* a variant that fills the final map up with the keys of the first pass
AfterPostMeasureMerged(w, ok) ==
    /\ stats' = [stats EXCEPT ![w] =
                    IF ok
                    THEN IF loudnessMap[w] = "pre" THEN "merged" ELSE "post"
                    ELSE loudnessMap[w]]
    /\ err' = [err EXCEPT ![w] = NoError]
    /\ Goto(w, "EstAfter")
    /\ ResetProcessFileLocals(w)

\* what ProcessFile does with the result of its final MeasureLoudness: on
\* error stats.Loudness falls back to the first-pass map; return stats, nil
AfterPostMeasure(w, ok) ==
    /\ stats' = [stats EXCEPT ![w] = IF ok THEN "post" ELSE loudnessMap[w]]
    /\ err' = [err EXCEPT ![w] = NoError]
    /\ Goto(w, "EstAfter")
    /\ ResetProcessFileLocals(w)

\* MeasureLoudness(ctx, outputPathAbs, ...)
PostMeasure(w) ==
    /\ pc[w] = "PostMeasure"
    /\ \E ok \in CmdOutcomes(w, "proc") :
          /\ AfterPostMeasure(w, ok)
          /\ Charge(w, "proc", ok)
    /\ UNCHANGED <<storeVars, histVars, queueVars, jm, dead>>
    /\ UNCHANGED calc

\* if err != nil { st.SetFailed(procCtx, jobUUID, err.Error()); return }
FailApply(w) ==
    /\ pc[w] = "FailApply"
    /\ \E ok \in ExecOutcomes(w, "proc") :
          /\ IF ok
             THEN SetFailedRow(jm[w].id, ErrorText(err[w]))
             ELSE UNCHANGED <<status, errorMsg>>
          /\ ChargeExec(w, "proc", ok)
    /\ ReturnToLoop(w)
    /\ UNCHANGED <<progress, s3ref, meta, histVars, queueVars, input, dnErr,
                   loudnessMap>>
    /\ UNCHANGED calc

\* ------------------------------------------------------------ after apply
EstAfter(w) == EstimateStep(w, "EstAfter", "MeasAfter")

MeasAfter(w) == MeasureStep(w, "MeasAfter", "P70")

\* a variant that writes a progress value the job has already passed
P70Regress(w) == ProgressStep(w, "proc", 10, "P70", "Upload")

\* progress 70 under procCtx, then uploadCtx is created
P70(w) == ProgressStep(w, "proc", 70, "P70", "Upload")

\* a variant that goes on to persist the reference whatever the upload did
AfterUploadIgnored(w, ok) ==
    /\ err' = [err EXCEPT ![w] =
                  IF ok THEN NoError
                  ELSE [kind |-> "upload", text |-> "put error"]]
    /\ Goto(w, "Storage")

\* what processSingleJob does with the result of s3Client.UploadFile
AfterUpload(w, ok) ==
    IF ok
    THEN /\ err' = [err EXCEPT ![w] = NoError]
         /\ Goto(w, "Storage")
    ELSE /\ err' = [err EXCEPT ![w] = [kind |-> "upload", text |-> "put error"]]
         /\ Goto(w, "FailUpload")

\* s3Client.UploadFile(uploadCtx, ...)
Upload(w) ==
    /\ pc[w] = "Upload"
    /\ \E ok \in CmdOutcomes(w, "upload") :
          /\ uploads' = [uploads EXCEPT ![jm[w].id] = Append(@, ok)]
          /\ AfterUpload(w, ok)
          /\ Charge(w, "upload", ok)
    /\ UNCHANGED <<storeVars, progLog, applyRuns, observed, enq, queueVars,
                   jm, dead, input, dnErr, loudnessMap, stats>>
    /\ UNCHANGED calc

\* st.SetFailed(uploadCtx, jobUUID, "s3 upload failed: "+err.Error()); return
FailUpload(w) ==
    /\ pc[w] = "FailUpload"
    /\ \E ok \in ExecOutcomes(w, "upload") :
          /\ IF ok
             THEN SetFailedRow(jm[w].id, UploadFailedText(err[w]))
             ELSE UNCHANGED <<status, errorMsg>>
          /\ ChargeExec(w, "upload", ok)
    /\ ReturnToLoop(w)
    /\ UNCHANGED <<progress, s3ref, meta, histVars, queueVars, input, dnErr,
                   loudnessMap>>
    /\ UNCHANGED calc

\* where processSingleJob goes after st.UpdateJobStorage returned: an error
\* is logged only
AfterStorage(w, ok) == Goto(w, "Meta")

\* st.UpdateJobStorage(uploadCtx, ...)
Storage(w) ==
    /\ pc[w] = "Storage"
    /\ \E ok \in ExecOutcomes(w, "upload") :
          /\ IF ok THEN UpdateJobStorageRow(jm[w].id) ELSE UNCHANGED s3ref
          /\ AfterStorage(w, ok)
          /\ ChargeExec(w, "upload", ok)
    /\ UNCHANGED <<status, progress, errorMsg, meta, histVars, queueVars, jm,
                   err, dead, input, dnErr, loudnessMap, stats>>
    /\ UNCHANGED calc

\* where processSingleJob goes after st.UpdateJobMetadata returned: the
\* error is discarded
AfterMeta(w, ok) == Goto(w, "Presign")

\* _ = st.UpdateJobMetadata(uploadCtx, ...)
Meta(w) ==
    /\ pc[w] = "Meta"
    /\ \E ok \in ExecOutcomes(w, "upload") :
          /\ IF ok
             THEN UpdateJobMetadataRow(jm[w].id, stats[w])
             ELSE UNCHANGED meta
          /\ AfterMeta(w, ok)
          /\ ChargeExec(w, "upload", ok)
    /\ UNCHANGED <<status, progress, errorMsg, s3ref, histVars, queueVars, jm,
                   err, dead, input, dnErr, loudnessMap, stats>>
    /\ UNCHANGED calc

\* presignedURL, err := s3Client.PresignedGetURL(uploadCtx, objectKey)
Presign(w) ==
    /\ pc[w] = "Presign"
    /\ \E ok \in CmdOutcomes(w, "upload") :
          /\ err' = [err EXCEPT ![w] =
                        IF ok THEN NoError
                        ELSE [kind |-> "presign", text |-> ""]]
          /\ Charge(w, "upload", ok)
    /\ Goto(w, "P100")
    /\ UNCHANGED <<storeVars, histVars, queueVars, jm, dead, input, dnErr,
                   loudnessMap, stats>>
    /\ UNCHANGED calc

P100(w) == ProgressStep(w, "upload", 100, "P100", "Finished")

\* _ = st.SetFinished(uploadCtx, jobUUID)
Finished(w) ==
    /\ pc[w] = "Finished"
    /\ \E ok \in ExecOutcomes(w, "upload") :
          /\ IF ok
             THEN SetFinishedRow(jm[w].id)
             ELSE UNCHANGED <<status, progress, progLog>>
          /\ ChargeExec(w, "upload", ok)
    /\ Goto(w, "Observe")
    /\ UNCHANGED <<errorMsg, s3ref, meta, applyRuns, uploads, observed, enq,
                   queueVars, jm, err, dead, input, dnErr, loudnessMap,
                   stats>>
    /\ UNCHANGED calc

\* metrics.ObserveJob(..., err == nil, ...), then return
Observe(w) ==
    /\ pc[w] = "Observe"
    /\ observed' = [observed EXCEPT ![jm[w].id] =
                       Append(@, err[w] = NoError)]
    /\ ReturnToLoop(w)
    /\ UNCHANGED <<storeVars, progLog, applyRuns, uploads, enq, queueVars,
                   envVars, input, dnErr, loudnessMap>>
    /\ UNCHANGED calc

\* ------------------------------------------------------------ specification
WorkerStep(w) ==
    \/ Receive(w) \/ WorkerExit(w)
    \/ SetStarted(w) \/ P10(w) \/ P20(w)
    \/ EstBefore(w) \/ MeasBefore(w)
    \/ LookPath(w) \/ NoiseLevel(w) \/ Noisereduce(w) \/ PreMeasure(w)
    \/ Apply(w) \/ Duration(w) \/ PostMeasure(w) \/ FailApply(w)
    \/ EstAfter(w) \/ MeasAfter(w) \/ P70(w)
    \/ Upload(w) \/ FailUpload(w)
    \/ Storage(w) \/ Meta(w) \/ Presign(w) \/ P100(w) \/ Finished(w)
    \/ Observe(w)

Next ==
    \/ \E j \in Jobs, m \in Methods : Submit(j, m)
    \/ \E d \in Foreign : PublishForeign(d)
    \/ Dispatch
    \/ Cancel
    \/ \E w \in Workers, c \in Ctxs : Timeout(w, c)
    \/ \E w \in Workers : WorkerStep(w)

Spec == Init /\ [][Next]_vars

TypeOK ==
    /\ \A j \in Jobs :
          /\ status[j] \in {"none", "queued", "processing", "done", "failed"}
          /\ progress[j] \in {0, 10, 20, 70, 100}
          /\ s3ref[j] \in {"null", "set"}
          /\ meta[j] \in {"null", "post", "pre", "nil"}
    /\ Len(jobCh) <= QueueCap
    /\ faults <= MaxFaults
    /\ rejects <= faults
    /\ \A w \in Workers : dead[w] \subseteq Ctxs

\* ------------------------------------------------------------ properties
\* the job of worker w, and whether processSingleJob has returned for job j
JobOf(w) == jm[w].id
Returned(j) == enq[j] > 0 /\ jobCh = <<>> /\ \A w \in Workers : JobOf(w) # j

\* the database refused no statement and no shutdown signal arrived
Undisturbed == rejects = 0 /\ ~cancelled

\* C1: a job whose apply pass and upload both succeeded has taken the
\* progress values 10, 20, 70, 100 in this order and ends done (stated for
\* the runs in which the database refuses nothing and no shutdown arrives)
C1_SuccessProgress ==
    \A w \in Workers :
        pc[w] = "Observe" /\ Undisturbed
            => /\ progLog[JobOf(w)] = <<10, 20, 70, 100>>
               /\ status[JobOf(w)] = "done"

\* C2: a job whose apply pass failed has taken the progress values 10, 20,
\* then is failed with the engine's diagnostic text as error message, its
\* progress still 20 (stated for the runs in which the database refuses
\* nothing and no shutdown arrives)
C2_ApplyFailure ==
    \A j \in Jobs :
        /\ Returned(j) /\ Undisturbed
        /\ applyRuns[j] # <<>>
        /\ ~applyRuns[j][1].ok
        => /\ progLog[j] = <<10, 20>>
           /\ progress[j] = 20
           /\ status[j] = "failed"
           /\ errorMsg[j].text = applyRuns[j][1].stderr

\* the status changes of the lifecycle: creation, start, the two ends
LifecycleMoves ==
    {<<"none", "queued">>, <<"queued", "processing">>,
     <<"processing", "done">>, <<"processing", "failed">>}

\* C3: a job's status only moves queued -> processing -> done | failed; no
\* step takes it from queued to done or failed, none changes done or failed
C3_StatusMoves ==
    [][\A j \in Jobs :
          status'[j] # status[j]
              => <<status[j], status'[j]>> \in LifecycleMoves]_vars

\* C4: a job whose upload failed after a successful apply pass is failed
\* with the upload error recorded, its progress still 70, never done, the
\* upload not tried again (stated for the runs in which the database
\* refuses nothing, no shutdown arrives and the processing deadline holds)
C4_UploadFailure ==
    \A j \in Jobs :
        /\ Returned(j) /\ Undisturbed
        /\ uploads[j] # <<>>
        /\ ~uploads[j][1]
        /\ progLog[j] = <<10, 20, 70>>
        => /\ status[j] = "failed"
           /\ errorMsg[j].kind = "s3 upload failed"
           /\ progress[j] = 70
           /\ Len(uploads[j]) = 1

\* the first apply run of job j read the unmodified input although the
\* descriptor asked for the external denoiser: the denoiser had failed
DenoiserFailedFor(w) ==
    /\ jm[w].method = "noisereduce"
    /\ applyRuns[JobOf(w)] # <<>>
    /\ applyRuns[JobOf(w)][1].input = "orig"

\* C5: a failure or timeout of the external spectral-gate denoiser alone
\* never fails the job: the step after it is the first loudness pass, on
\* the unmodified input, no status is written, and when nothing else goes
\* wrong the job reaches done
C5_DenoiserSoftFail ==
    /\ [][\A w \in Workers :
             pc[w] = "Noisereduce" /\ pc'[w] # "Noisereduce"
                 => /\ pc'[w] = "PreMeasure"
                    /\ status' = status
                    /\ (dnErr'[w] => input'[w] = "orig")]_vars
    /\ [](\A w \in Workers :
             pc[w] = "Observe" /\ DenoiserFailedFor(w) /\ faults = 1
                 => /\ status[JobOf(w)] = "done"
                    /\ applyRuns[JobOf(w)][1].ok)

\* a job is done although its denoiser failed
C5_Witness ==
    \E w \in Workers :
        pc[w] = "Observe" /\ DenoiserFailedFor(w) /\ status[JobOf(w)] = "done"

\* C6: when the mean-volume estimator finds no mean_volume token only that
\* call fails: the job is not failed on this account and goes on to the
\* apply pass
C6_NoiseLevelSoftFail ==
    /\ \A w \in Workers : pc[w] = "FailApply" => err[w].kind # "GetNoiseLevel"
    /\ \A j \in Jobs :
          status[j] = "failed" => errorMsg[j].kind # "GetNoiseLevel"

\* the step that follows each measurement whose failure is tolerated
AfterSoftStep ==
    [s \in {"EstBefore", "MeasBefore", "PreMeasure", "PostMeasure",
            "EstAfter", "MeasAfter"} |->
        CASE s = "EstBefore" -> "MeasBefore"
          [] s = "MeasBefore" -> "LookPath"
          [] s = "PreMeasure" -> "Apply"
          [] s = "PostMeasure" -> "EstAfter"
          [] s = "EstAfter" -> "MeasAfter"
          [] s = "MeasAfter" -> "P70"]

\* C7: a failed quality estimation or loudness measurement, before or after
\* processing, is never turned into a job failure: the worker goes on to the
\* step that follows, no status or error message is written, and when
\* nothing else goes wrong the job is done with the fallback value stored
C7_MeasurementsSoftFail ==
    /\ [][\A w \in Workers :
             pc[w] \in DOMAIN AfterSoftStep /\ pc'[w] # pc[w]
                 => /\ pc'[w] = AfterSoftStep[pc[w]]
                    /\ status' = status
                    /\ errorMsg' = errorMsg]_vars
    /\ [](\A w \in Workers :
             /\ pc[w] = "Observe" /\ faults = 1
             /\ meta[JobOf(w)] \in {"pre", "nil"}
             => status[JobOf(w)] = "done")

\* a job is done with the first-pass loudness stored, the final loudness
\* measurement having failed
C7_Witness ==
    \E j \in Jobs : status[j] = "done" /\ meta[j] = "pre"

\* C8: no job is retried or requeued: the apply pass and the upload run at
\* most once per delivered descriptor and a descriptor enters the queue once
C8_NoRetry ==
    \A j \in Jobs :
        /\ enq[j] <= 1
        /\ Len(applyRuns[j]) <= enq[j]
        /\ Len(uploads[j]) <= enq[j]

\* a job's apply pass failed, its worker is back in the loop, the queues are
\* empty
C8_Witness ==
    \E j \in Jobs :
        /\ Returned(j)
        /\ nats = <<>>
        /\ Len(applyRuns[j]) = 1
        /\ ~applyRuns[j][1].ok
        /\ status[j] = "failed"

\* C9: when the storage reference or the metadata could not be persisted
\* after a successful upload the job still becomes done, and is not failed
\* (stated for the runs in which no shutdown arrives)
C9_PersistFailure ==
    \A j \in Jobs :
        /\ Returned(j) /\ ~cancelled
        /\ uploads[j] = <<TRUE>>
        /\ (s3ref[j] = "null" \/ meta[j] = "null")
        => status[j] = "done"

\* C10: the stored progress of a job never decreases
C10_ProgressMonotone ==
    [][\A j \in Jobs : progress'[j] >= progress[j]]_vars

\* a progress write was lost and a later one stored: 70 is missing
C10_Witness ==
    \E j \in Jobs : progLog[j] = <<10, 20, 100>>

\* the workers that hold the descriptor of job j, and its copies on jobCh
Holders(j) == {w \in Workers : JobOf(w) = j}
Queued(j) == {i \in 1..Len(jobCh) : jobCh[i].id = j}

\* C11: every descriptor put on jobCh is received by one worker, once: a
\* receive takes the head of the channel off it and gives it to one worker
\* only, a job's descriptor is never both queued and held nor held twice,
\* and no two workers ever hold the same job
C11_OneReceiver ==
    /\ [](\A j \in Jobs :
             Cardinality(Holders(j)) + Cardinality(Queued(j)) <= enq[j])
    /\ [](\A v, w \in Workers :
             v # w /\ JobOf(v) \in Jobs => JobOf(w) # JobOf(v))
    /\ [][\A w \in Workers :
             jm'[w] # jm[w] /\ jm'[w] # NoJob
                 => /\ jobCh # <<>>
                    /\ jm'[w] = Head(jobCh)
                    /\ jobCh' = Tail(jobCh)
                    /\ \A v \in Workers : v # w => jm'[v] = jm[v]]_vars

\* one worker processes the job while another waits on the empty channel
C11_Witness ==
    \E v, w \in Workers :
        /\ v # w
        /\ pc[v] = "idle" /\ pc[w] = "Apply"
        /\ jobCh = <<>>
        /\ enq[JobOf(w)] = 1

\* C12: a descriptor whose id is no well-formed identifier is dropped: the
\* step that takes it off the channel writes nothing to the store, runs no
\* engine command, publishes and queues nothing, and leaves the worker
\* waiting; no worker ever processes such a descriptor
C12_BadIdDropped ==
    /\ [](\A w \in Workers :
             pc[w] \notin {"idle", "exited"} => JobOf(w) \in Jobs)
    /\ [][jobCh # <<>> /\ Head(jobCh).id \notin Jobs /\ jobCh' = Tail(jobCh)
             => /\ UNCHANGED <<storeVars, histVars, nats>>
                /\ UNCHANGED <<pc, jm>>]_vars

\* a descriptor with a bad id was published and has been taken off the
\* channel: nothing is queued, no job row exists, every worker waits
C12_Witness ==
    /\ faults = 1 /\ ~cancelled
    /\ nats = <<>> /\ jobCh = <<>>
    /\ \A j \in Jobs : status[j] = "none"
    /\ \A w \in Workers : pc[w] = "idle"

\* C13: a descriptor with an empty input path is dropped as malformed: the
\* stored status, progress and error message of its job are not changed
C13_EmptyPathDropped ==
    \A w \in Workers :
        JobOf(w) \in Jobs /\ jm[w].path = ""
            => /\ status[JobOf(w)] = "queued"
               /\ progress[JobOf(w)] = 0
               /\ errorMsg[JobOf(w)] = NoMsg

\* ------------------------------------------------------------ quality.go
\* the most lines of engine output an evaluation of the estimator reads
MaxLines == 4

\* the statistics the estimator's patterns match, and a line matching none
StatLabels == {"RMS_level_dB", "Peak_level_dB", "Noise_level"}

\* the decimal readings a statistics line may carry, in dB
Readings == {0, -40, -42}

\* the lines of the engine's astats output
StatLines ==
    [label : StatLabels, value : Readings]
        \cup {[label |-> "other", value |-> 0]}

\* all outputs of at most n lines
RECURSIVE Outputs(_)
Outputs(n) ==
    IF n = 0 THEN {<<>>}
    ELSE LET shorter == Outputs(n - 1)
         IN  shorter \cup {Append(o, l) : o \in {x \in shorter : Len(x) = n - 1},
                                          l \in StatLines}

\* float64 values: NaN, or the quotient num / den
NaN == [nan |-> TRUE, num |-> 0, den |-> 1]
Float(n, d) == [nan |-> FALSE, num |-> n, den |-> d]
IsNaN(x) == x.nan

\* x - y on float64; NaN when either is NaN
FloatSub(x, y) ==
    IF x.nan \/ y.nan THEN NaN
    ELSE Float(x.num * y.den - y.num * x.den, x.den * y.den)

\* x = n, for an integer n
FloatIs(x, n) == ~x.nan /\ x.num = n * x.den

\* a variant of the zero test that keeps every reading
AnyReading(v) == TRUE

\* if v, _ := strconv.ParseFloat(m[1], 64); v != 0
NonZero(v) == v # 0

\* the loop over the lines: the readings appended to one of the series
RECURSIVE Series(_, _)
Series(lines, label) ==
    IF lines = <<>> THEN <<>>
    ELSE LET l == Head(lines)
             rest == Series(Tail(lines), label)
         IN  IF l.label = label /\ NonZero(l.value)
             THEN <<l.value>> \o rest
             ELSE rest

\* sum += v over vals
RECURSIVE SumOf(_)
SumOf(vals) == IF vals = <<>> THEN 0 ELSE Head(vals) + SumOf(Tail(vals))

\* avg
avg(vals) == IF Len(vals) = 0 THEN NaN ELSE Float(SumOf(vals), Len(vals))

\* EstimateQuality on the engine output lines: (nil, error) without RMS
\* readings, else the metrics
EstimateQuality(lines) ==
    LET rmsVals == Series(lines, "RMS_level_dB")
        peakVals == Series(lines, "Peak_level_dB")
        noiseVals == Series(lines, "Noise_level")
        rmsAvg == avg(rmsVals)
        peakAvg == avg(peakVals)
        noiseAvg == avg(noiseVals)
        snr == IF ~IsNaN(peakAvg) /\ ~IsNaN(rmsAvg)
               THEN FloatSub(peakAvg, rmsAvg)
               ELSE Float(0, 1)
    IN  IF Len(rmsVals) = 0
        THEN [ok |-> FALSE]
        ELSE [ok |-> TRUE, SNR |-> snr, RMSLevel |-> rmsAvg,
              PeakLevel |-> peakAvg, NoiseLevel |-> noiseAvg]

\* processSingleJob: snrBefore := 0.0; if snrBeforeMetrics != nil { ... .SNR }
SnrOf(res) == IF res.ok THEN res.SNR ELSE Float(0, 1)

\* the exit codes of an engine run: 0, or a failure
ExitCodes == {0, 1}

\* a variant that gives up when the engine exited with a non-zero code
EstimateQualityStrict(exit, lines) ==
    IF exit # 0 THEN [ok |-> FALSE] ELSE EstimateQuality(lines)

\* output, err := cmd.CombinedOutput(): the error is logged, the output is
\* parsed whatever the exit code
EstimateQualityRun(exit, lines) == EstimateQuality(lines)

\* an evaluation of EstimateQuality starts on some engine output
InitQuality ==
    /\ Boot
    /\ calc \in {[fn |-> "EstimateQuality", done |-> FALSE, exit |-> e,
                  lines |-> o] : e \in ExitCodes, o \in Outputs(MaxLines)}

\* EstimateQuality returns
EstimateQualityReturns ==
    /\ calc.fn = "EstimateQuality"
    /\ ~calc.done
    /\ calc' = [fn |-> calc.fn, done |-> TRUE, exit |-> calc.exit,
                lines |-> calc.lines,
                res |-> EstimateQualityRun(calc.exit, calc.lines)]
    /\ UNCHANGED lifecycleVars

SpecQuality == InitQuality /\ [][EstimateQualityReturns]_vars

\* the lines of the engine's volumedetect output: a mean_volume line with
\* its reading in dB, or a line without the token
VolumeLines ==
    [label : {"mean_volume"}, value : {0, -27}]
        \cup {[label |-> "other", value |-> 0]}

\* all volumedetect outputs of at most n lines
RECURSIVE VolumeOutputs(_)
VolumeOutputs(n) ==
    IF n = 0 THEN {<<>>}
    ELSE LET shorter == VolumeOutputs(n - 1)
         IN  shorter \cup {Append(o, l) : o \in {x \in shorter : Len(x) = n - 1},
                                          l \in VolumeLines}

\* re.FindStringSubmatch(out): the reading of the first mean_volume token,
\* NaN when there is none
RECURSIVE FirstMeanVolume(_)
FirstMeanVolume(lines) ==
    IF lines = <<>> THEN NaN
    ELSE IF Head(lines).label = "mean_volume"
         THEN Float(Head(lines).value, 1)
         ELSE FirstMeanVolume(Tail(lines))

\* GetNoiseLevel on a finished engine run: the error of cmd.Run() is
\* dropped, stderr is parsed
GetNoiseLevel(exit, lines) ==
    LET m == FirstMeanVolume(lines)
    IN  IF IsNaN(m) THEN [ok |-> FALSE] ELSE [ok |-> TRUE, v |-> m]

\* an evaluation of GetNoiseLevel starts on some engine output
InitNoise ==
    /\ Boot
    /\ calc \in {[fn |-> "GetNoiseLevel", done |-> FALSE, exit |-> e,
                  lines |-> o] : e \in ExitCodes, o \in VolumeOutputs(MaxLines)}

\* GetNoiseLevel returns
GetNoiseLevelReturns ==
    /\ calc.fn = "GetNoiseLevel"
    /\ ~calc.done
    /\ calc' = [fn |-> calc.fn, done |-> TRUE, exit |-> calc.exit,
                lines |-> calc.lines,
                res |-> GetNoiseLevel(calc.exit, calc.lines)]
    /\ UNCHANGED lifecycleVars

\* the two estimators, each on the output and the exit code of its engine run
InitEstimators == InitQuality \/ InitNoise

SpecEstimators ==
    InitEstimators /\ [][EstimateQualityReturns \/ GetNoiseLevelReturns]_vars

\* an evaluation of EstimateQuality has returned
QualityDone == calc.fn = "EstimateQuality" /\ calc.done

\* the lines of the output that carry a non-zero reading of a statistic
NonZeroLines(lines, label) ==
    {i \in 1..Len(lines) : lines[i].label = label /\ lines[i].value # 0}

\* the sum of the readings on a set of lines
RECURSIVE SumOn(_, _)
SumOn(lines, I) ==
    IF I = {} THEN 0
    ELSE LET i == CHOOSE x \in I : TRUE
         IN  lines[i].value + SumOn(lines, I \ {i})

\* C14: a statistic without readings has an unknown mean, reported as
\* unknown and never as 0, and the SNR is unknown whenever the mean peak or
\* the mean RMS is unknown
C14_UnknownPropagates ==
    QualityDone =>
        LET res == calc.res
            none(label) == NonZeroLines(calc.lines, label) = {}
        IN  /\ res.ok =>
                /\ none("Peak_level_dB") => IsNaN(res.PeakLevel)
                /\ none("Noise_level") => IsNaN(res.NoiseLevel)
                /\ none("Peak_level_dB") => IsNaN(res.SNR)
            /\ none("RMS_level_dB") => IsNaN(SnrOf(res))

\* the mean of the non-zero readings of a statistic, where there are some
MeanIsOfNonZero(x, lines, label) ==
    LET I == NonZeroLines(lines, label)
    IN  I # {} => /\ ~IsNaN(x)
                  /\ x.num * Cardinality(I) = SumOn(lines, I) * x.den

\* the RMS series 0, -40, 0, -42
ExampleRMS ==
    [i \in 1..4 |-> [label |-> "RMS_level_dB",
                     value |-> <<0, -40, 0, -42>>[i]]]

\* C20: the estimator discards the zero readings of each series before it
\* averages: each reported mean is the arithmetic mean of the non-zero
\* readings of its series, and the RMS series 0, -40, 0, -42 averages to -41
C20_ZeroReadingsDiscarded ==
    QualityDone /\ calc.res.ok =>
        /\ MeanIsOfNonZero(calc.res.RMSLevel, calc.lines, "RMS_level_dB")
        /\ MeanIsOfNonZero(calc.res.PeakLevel, calc.lines, "Peak_level_dB")
        /\ MeanIsOfNonZero(calc.res.NoiseLevel, calc.lines, "Noise_level")
        /\ calc.lines = ExampleRMS => FloatIs(calc.res.RMSLevel, -41)

\* the estimator has returned on the RMS series 0, -40, 0, -42
C20_Witness ==
    /\ QualityDone
    /\ calc.lines = ExampleRMS
    /\ calc.res.ok
    /\ FloatIs(calc.res.RMSLevel, -41)

\* ------------------------------------------------------------ filter chain
\* amplitudes are counted in units of 10^-9, thresholds in 1/100 dB

\* the clamp boundaries 0.000976563 and 1.0
FloorAmp == 976563
CeilAmp == 1000000000

\* the threshold_db values an evaluation draws
Thresholds == {-7000, -6021, -6020, -6010, -6000, -2000, -100, 0, 1, 600}

\* math.Pow(10.0, dB/20.0), to nine decimals
Pow10 ==
    [d \in Thresholds |->
        CASE d = -7000 -> 316228
          [] d = -6021 -> 976113
          [] d = -6020 -> 977237
          [] d = -6010 -> 988553
          [] d = -6000 -> 1000000
          [] d = -2000 -> 100000000
          [] d = -100 -> 891250938
          [] d = 0 -> 1000000000
          [] d = 1 -> 1001151956
          [] d = 600 -> 1995262315]

\* a variant of the clamp without its upper bound
ClampNoCeiling(x) == IF x < FloorAmp THEN FloorAmp ELSE x

\* if x < 0.000976563 { x = 0.000976563 } else if x > 1.0 { x = 1.0 }
Clamp(x) ==
    IF x < FloorAmp THEN FloorAmp
    ELSE IF x > CeilAmp THEN CeilAmp ELSE x

\* the decimal digits of a natural number, as characters
DigitChar(n) == <<"0", "1", "2", "3", "4", "5", "6", "7", "8", "9">>[n + 1]

RECURSIVE IntDigits(_)
IntDigits(n) ==
    IF n < 10 THEN <<DigitChar(n)>>
    ELSE Append(IntDigits(n \div 10), DigitChar(n % 10))

\* strconv.FormatFloat(f, 'f', 6, 64): six decimals, rounded to nearest
FormatFloat6(x) ==
    LET micro == (x + 500) \div 1000
        whole == micro \div 1000000
        frac == micro % 1000000
        place == <<100000, 10000, 1000, 100, 10, 1>>
    IN  IntDigits(whole) \o <<".">>
            \o [i \in 1..6 |-> DigitChar((frac \div place[i]) % 10)]

\* strings.TrimRight(s, c) for a single character c
RECURSIVE TrimRight(_, _)
TrimRight(s, c) ==
    IF s # <<>> /\ s[Len(s)] = c
    THEN TrimRight(SubSeq(s, 1, Len(s) - 1), c)
    ELSE s

\* a variant that prints the six decimals as they are
keepTrailingZeros(x) == FormatFloat6(x)

\* stripTrailingZeros
stripTrailingZeros(x) ==
    LET t == TrimRight(TrimRight(FormatFloat6(x), "0"), ".")
    IN  IF t = <<>> THEN <<"0">> ELSE t

\* the threshold text of a compressor or limiter stage
ThresholdText(d) == stripTrailingZeros(Clamp(Pow10[d]))

\* the denoise_method values of a descriptor, lower-cased and trimmed
ChainMethods == {"afftdn", "none", "arnndn", "rnnoise", "noisereduce"}

\* the ProcessOptions an evaluation draws
ChainOptions ==
    [DenoiseMethod : ChainMethods,
     UseCompressor : BOOLEAN, CompressorDB : Thresholds,
     UseLimiter : BOOLEAN, LimiterDB : Thresholds]

\* the options processSingleJob passes
WorkerOptions(method) ==
    [DenoiseMethod |-> method,
     UseCompressor |-> TRUE, CompressorDB |-> -2000,
     UseLimiter |-> TRUE, LimiterDB |-> -100]

\* a stage of the chain; text is the threshold of a dynamics stage
Stage(name, text) == [name |-> name, text |-> text]
NoFilter == Stage("", <<>>)

\* a variant of the choice in which "none" and "" ask for no denoising
DenoiseFilterNoneIsOff(method, hasArnndn, modelExists) ==
    IF method \in {"noisereduce", "none", ""} THEN NoFilter
    ELSE IF method \in {"arnndn", "rnnoise"}
         THEN IF hasArnndn /\ modelExists THEN Stage("arnndn", <<>>)
              ELSE Stage("afftdn", <<>>)
         ELSE Stage("afftdn", <<>>)

\* a variant of the choice that does not look for the model file
DenoiseFilterNoStat(method, hasArnndn, modelExists) ==
    IF method = "noisereduce" THEN NoFilter
    ELSE IF method \in {"arnndn", "rnnoise"}
         THEN IF hasArnndn THEN Stage("arnndn", <<>>)
              ELSE Stage("afftdn", <<>>)
         ELSE Stage("afftdn", <<>>)

\* ProcessFile step 1: the ffmpeg-side denoise filter; hasArnndn is
\* ffmpegHasFilter("arnndn"), modelExists is os.Stat(rnModel) succeeding
DenoiseFilter(method, hasArnndn, modelExists) ==
    IF method = "noisereduce" THEN NoFilter
    ELSE IF method \in {"arnndn", "rnnoise"}
         THEN IF hasArnndn
              THEN IF modelExists THEN Stage("arnndn", <<>>)
                   ELSE Stage("afftdn", <<>>)
              ELSE Stage("afftdn", <<>>)
         ELSE Stage("afftdn", <<>>)

\* a variant of the builder that resamples before it limits
FilterChainResampleEarly(denoiseFilter, opts) ==
    LET p1 == IF denoiseFilter # NoFilter THEN <<denoiseFilter>> ELSE <<>>
        p2 == Append(p1, Stage("loudnorm", <<>>))
        p3 == IF opts.UseCompressor
              THEN Append(p2, Stage("acompressor",
                                    ThresholdText(opts.CompressorDB)))
              ELSE p2
        p4 == Append(p3, Stage("aresample", <<>>))
    IN  IF opts.UseLimiter
        THEN Append(p4, Stage("alimiter", ThresholdText(opts.LimiterDB)))
        ELSE p4

\* ProcessFile step 3: filterParts
FilterChain(denoiseFilter, opts) ==
    LET p1 == IF denoiseFilter # NoFilter THEN <<denoiseFilter>> ELSE <<>>
        p2 == Append(p1, Stage("loudnorm", <<>>))
        p3 == IF opts.UseCompressor
              THEN Append(p2, Stage("acompressor",
                                    ThresholdText(opts.CompressorDB)))
              ELSE p2
        p4 == IF opts.UseLimiter
              THEN Append(p3, Stage("alimiter", ThresholdText(opts.LimiterDB)))
              ELSE p3
    IN  Append(p4, Stage("aresample", <<>>))

\* an evaluation of the chain builder starts on some options and some
\* outcome of the two checks of the neural filter
InitChain ==
    /\ Boot
    /\ calc \in {[fn |-> "FilterChain", done |-> FALSE, opts |-> o,
                  hasArnndn |-> h, modelExists |-> e] :
                    o \in ChainOptions, h \in BOOLEAN, e \in BOOLEAN}

\* the chain is built
FilterChainBuilt ==
    /\ calc.fn = "FilterChain"
    /\ ~calc.done
    /\ calc' = [fn |-> calc.fn, done |-> TRUE, opts |-> calc.opts,
                hasArnndn |-> calc.hasArnndn,
                modelExists |-> calc.modelExists,
                res |-> FilterChain(
                            DenoiseFilter(calc.opts.DenoiseMethod,
                                          calc.hasArnndn, calc.modelExists),
                            calc.opts)]
    /\ UNCHANGED lifecycleVars

SpecChain == InitChain /\ [][FilterChainBuilt]_vars

\* a variant of the builder that keeps filterParts between invocations
RebuildAppending(prev, denoiseFilter, opts) ==
    prev \o FilterChain(denoiseFilter, opts)

\* a later invocation of the builder in the same process; prev is the chain
\* the invocation before it built: filterParts starts empty every time
Rebuild(prev, denoiseFilter, opts) == FilterChain(denoiseFilter, opts)

\* the chain is built once more from the same options and the same outcome
\* of the denoise resolution
FilterChainBuiltAgain ==
    /\ calc.fn = "FilterChain"
    /\ calc.done
    /\ "again" \notin DOMAIN calc
    /\ calc' = [fn |-> calc.fn, done |-> TRUE, opts |-> calc.opts,
                hasArnndn |-> calc.hasArnndn,
                modelExists |-> calc.modelExists,
                res |-> calc.res,
                again |-> Rebuild(calc.res,
                                  DenoiseFilter(calc.opts.DenoiseMethod,
                                                calc.hasArnndn,
                                                calc.modelExists),
                                  calc.opts)]
    /\ UNCHANGED lifecycleVars

SpecChainTwice ==
    InitChain /\ [][FilterChainBuilt \/ FilterChainBuiltAgain]_vars

\* the chain builder has returned
ChainDone == calc.fn = "FilterChain" /\ calc.done

\* the place of a stage in the documented order
StageRank(name) ==
    CASE name \in {"afftdn", "arnndn"} -> 1
      [] name = "loudnorm" -> 2
      [] name = "acompressor" -> 3
      [] name = "alimiter" -> 4
      [] name = "aresample" -> 5

\* the chain has a stage of that name
HasStage(chain, name) == \E i \in 1..Len(chain) : chain[i].name = name

\* C15: for every denoise method, compressor on or off, limiter on or off,
\* the stages of the chain are in the order denoise, loudness
\* normalization, compressor, limiter, resample; normalization and resample
\* are always there, resample last, compressor and limiter exactly when
\* they are switched on
C15_ChainOrder ==
    ChainDone =>
        LET c == calc.res
        IN  /\ \A i, j \in 1..Len(c) :
                  i < j => StageRank(c[i].name) < StageRank(c[j].name)
            /\ HasStage(c, "loudnorm")
            /\ c[Len(c)].name = "aresample"
            /\ HasStage(c, "acompressor") <=> calc.opts.UseCompressor
            /\ HasStage(c, "alimiter") <=> calc.opts.UseLimiter

\* a chain with all five stages has been built
C15_Witness ==
    /\ ChainDone
    /\ Len(calc.res) = 5
    /\ calc.opts.UseCompressor /\ calc.opts.UseLimiter

\* the threshold text of the stage of that name
TextOf(chain, name) ==
    chain[CHOOSE i \in 1..Len(chain) : chain[i].name = name].text

\* the dynamics stages of the built chain with their threshold_db
Dynamics ==
    (IF calc.opts.UseCompressor
     THEN {[db |-> calc.opts.CompressorDB,
            text |-> TextOf(calc.res, "acompressor")]}
     ELSE {})
    \cup
    (IF calc.opts.UseLimiter
     THEN {[db |-> calc.opts.LimiterDB,
            text |-> TextOf(calc.res, "alimiter")]}
     ELSE {})

\* the clamp boundaries as they are written into a chain
FloorText == <<"0", ".", "0", "0", "0", "9", "7", "7">>
CeilText == <<"1">>

\* C16 as claimed: every threshold outside [-60, 0] dB is embedded as the
\* clamp boundary
C16_ClampOutside60 ==
    ChainDone =>
        \A t \in Dynamics :
            /\ t.db < -6000 => t.text = FloorText
            /\ t.db > 0 => t.text = CeilText

\* C16 as amended: every threshold below -60.206 dB, where 10^(dB/20) is
\* below 0.000976563, or above 0 dB is embedded as the clamp boundary,
\* written 0.000977 and 1
C16_ClampOutsideRange ==
    ChainDone =>
        \A t \in Dynamics :
            /\ t.db <= -6021 => t.text = FloorText
            /\ t.db > 0 => t.text = CeilText

\* a compressor threshold of -70 dB and a limiter threshold of +6 dB are
\* embedded as the two boundaries
C16_Witness ==
    /\ ChainDone
    /\ [db |-> -7000, text |-> FloorText] \in Dynamics
    /\ [db |-> 600, text |-> CeilText] \in Dynamics

\* C17: the neural denoise stage is in the chain only when the engine has
\* the filter and the model file exists; when it was asked for and either
\* check fails the chain starts with the default spectral filter, and a
\* chain is built all the same
C17_NeuralNeedsBoth ==
    ChainDone =>
        LET c == calc.res
            neural == calc.opts.DenoiseMethod \in {"arnndn", "rnnoise"}
        IN  /\ HasStage(c, "arnndn")
                  <=> neural /\ calc.hasArnndn /\ calc.modelExists
            /\ neural /\ ~(calc.hasArnndn /\ calc.modelExists)
                  => /\ c[1].name = "afftdn"
                     /\ c[Len(c)].name = "aresample"

\* the neural stage was asked for, the engine has the filter, the model
\* file is missing: the chain starts with the default filter
C17_Witness ==
    /\ ChainDone
    /\ calc.opts.DenoiseMethod = "arnndn"
    /\ calc.hasArnndn /\ ~calc.modelExists
    /\ calc.res[1].name = "afftdn"

\* a variant of the arguments in which the normalization stage carries what
\* the first loudness pass measured
ApplyArgsMeasured(w) ==
    [input |-> input[w],
     chain |-> <<Stage("loudnorm", <<loudnessMap[w]>>)>>
                  \o FilterChain(DenoiseFilter(jm[w].method, FALSE, FALSE),
                                 WorkerOptions(jm[w].method))]

\* the -i and -af arguments of the apply pass worker w is about to run (the
\* worker's descriptors name no neural method: the two checks are not made)
ApplyArgs(w) ==
    [input |-> input[w],
     chain |-> FilterChain(DenoiseFilter(jm[w].method, FALSE, FALSE),
                           WorkerOptions(jm[w].method))]

\* C18: with the external spectral-gate method the input of the apply pass
\* is never empty: it is the denoiser's output file when the denoiser
\* succeeded, the original input when it failed, and the chain has no
\* denoise stage of the engine in either case
C18_GateInput ==
    /\ \A w \in Workers :
          pc[w] = "Apply" /\ jm[w].method = "noisereduce"
              => /\ ApplyArgs(w).input # ""
                 /\ ApplyArgs(w).input = IF dnErr[w] THEN "orig" ELSE "denoised"
                 /\ ~HasStage(ApplyArgs(w).chain, "afftdn")
                 /\ ~HasStage(ApplyArgs(w).chain, "arnndn")
                 /\ ApplyArgs(w).chain[1].name = "loudnorm"
    /\ \A j \in Jobs : \A i \in 1..Len(applyRuns[j]) :
          applyRuns[j][i].input \in {"orig", "denoised"}

\* the denoiser failed and the apply pass is about to read the original
C18_Witness ==
    \E w \in Workers :
        /\ pc[w] = "Apply"
        /\ jm[w].method = "noisereduce"
        /\ dnErr[w]
        /\ ApplyArgs(w).input = "orig"

-----------------------------------------------------------------------------
\* The loudness measurement: parsing the summary the engine prints

\* the four labels looked for, by prefix, in the diagnostic text
LoudLabels ==
    {"Input Integrated:", "Input True Peak:", "Input LRA:",
     "Output Integrated:"}

\* the key each label is stored under
LoudKey ==
    [l \in LoudLabels |->
        CASE l = "Input Integrated:" -> "input_integrated"
          [] l = "Input True Peak:" -> "input_true_peak"
          [] l = "Input LRA:" -> "input_range"
          [] l = "Output Integrated:" -> "output_integrated"]

\* decimal literals that follow a label, in 1/10 of a unit
LoudValues == {0, -235}

\* a line of the text: a label and its literal, or a line with no label
LoudLines ==
    [label : LoudLabels, value : LoudValues]
        \cup {[label |-> "other", value |-> 0]}

\* the diagnostic texts handed to the parser
RECURSIVE LoudTexts(_)
LoudTexts(n) ==
    IF n = 0 THEN {<<>>}
    ELSE LoudTexts(n - 1)
            \cup {Append(t, l) : t \in {u \in LoudTexts(n - 1) : Len(u) = n - 1},
                                 l \in LoudLines}

\* the first literal after the label, NaN when no line has the label
RECURSIVE FirstMatch(_, _)
FirstMatch(lines, label) ==
    IF lines = <<>> THEN NaN
    ELSE IF Head(lines).label = label THEN Float(Head(lines).value, 10)
    ELSE FirstMatch(Tail(lines), label)

\* a parser that gives every key a value, 0 where no line had the label
MeasureLoudnessZeroFilled(lines) ==
    [ok |-> TRUE,
     m |-> [k \in {LoudKey[l] : l \in LoudLabels} |->
              LET l == CHOOSE x \in LoudLabels : LoudKey[x] = k
              IN  IF IsNaN(FirstMatch(lines, l)) THEN Float(0, 10)
                  ELSE FirstMatch(lines, l)]]

\* the result of the measurement on a diagnostic text
MeasureLoudness(lines) ==
    LET found == {l \in LoudLabels : ~IsNaN(FirstMatch(lines, l))}
    IN  IF found = {} THEN [ok |-> FALSE]
        ELSE [ok |-> TRUE,
              m |-> [k \in {LoudKey[l] : l \in found} |->
                       FirstMatch(lines,
                                  CHOOSE x \in LoudLabels : LoudKey[x] = k)]]

InitLoudness ==
    /\ Boot
    /\ calc \in {[fn |-> "MeasureLoudness", done |-> FALSE, lines |-> t] :
                    t \in LoudTexts(MaxLines)}

\* the text is parsed
MeasureLoudnessReturns ==
    /\ calc.fn = "MeasureLoudness"
    /\ ~calc.done
    /\ calc' = [fn |-> calc.fn, done |-> TRUE, lines |-> calc.lines,
                res |-> MeasureLoudness(calc.lines)]
    /\ UNCHANGED lifecycleVars

SpecLoudness == InitLoudness /\ [][MeasureLoudnessReturns]_vars

\* the parser has returned
LoudnessDone == calc.fn = "MeasureLoudness" /\ calc.done

\* the labels that occur in the text
LabelsIn(lines) ==
    {lines[i].label : i \in 1..Len(lines)} \cap LoudLabels

\* C19: the map the loudness parser returns has exactly the keys whose
\* labelled lines occur in the text: a text with no labelled line, the empty
\* text among them, is a failure and no map with zero values, and a text
\* whose only line is "Input Integrated:" gives the one key input_integrated
C19_ExactKeys ==
    LoudnessDone =>
        /\ LabelsIn(calc.lines) = {} => ~calc.res.ok
        /\ LabelsIn(calc.lines) # {} =>
              /\ calc.res.ok
              /\ DOMAIN calc.res.m = {LoudKey[l] : l \in LabelsIn(calc.lines)}
              /\ \A l \in LabelsIn(calc.lines) :
                    \E i \in 1..Len(calc.lines) :
                        /\ calc.lines[i].label = l
                        /\ calc.res.m[LoudKey[l]] = Float(calc.lines[i].value, 10)
        /\ calc.lines = <<>> => ~calc.res.ok
        /\ (Len(calc.lines) = 1 /\ calc.lines[1].label = "Input Integrated:")
              => /\ calc.res.ok
                 /\ DOMAIN calc.res.m = {"input_integrated"}

\* a text with the one line "Input Integrated: 0.0" has been parsed into a
\* map with that one key
C19_Witness ==
    /\ LoudnessDone
    /\ calc.lines = <<[label |-> "Input Integrated:", value |-> 0]>>
    /\ calc.res.ok
    /\ DOMAIN calc.res.m = {"input_integrated"}

-----------------------------------------------------------------------------
\* The environment and the contexts of a job

\* C21: a missing engine binary is found when the worker process starts and
\* never per job: no job is failed, and no worker is about to fail a job,
\* because ProcessFile did not find a binary
C21_BinaryCheckedAtStartup ==
    /\ \A w \in Workers :
          pc[w] = "FailApply" => err[w].kind # "binary not found"
    /\ \A j \in Jobs :
          status[j] = "failed" => errorMsg[j].kind # "binary not found"

\* C22: once the outer context of the worker loop is cancelled a job in
\* processing is abandoned: no step writes a status or an error message for
\* it (neither failed nor done), and it stays in processing
C22_CancelAbandons ==
    [][\A j \in Jobs :
          cancelled /\ status[j] = "processing"
              => /\ status'[j] = "processing"
                 /\ errorMsg'[j] = errorMsg[j]]_vars

\* the shutdown came while the job was in processing; processSingleJob has
\* returned for it and it is still in processing
C22_Witness ==
    \E j \in Jobs :
        /\ cancelled
        /\ Returned(j)
        /\ status[j] = "processing"
        /\ errorMsg[j] = NoMsg

\* the blocking sub-operations of a job: the quality estimations, the
\* measurement passes, the external denoiser, the apply pass, the upload
SubOps ==
    {"EstBefore", "MeasBefore", "NoiseLevel", "Noisereduce", "PreMeasure",
     "Apply", "PostMeasure", "EstAfter", "MeasAfter", "Upload"}

\* the timeout context a step runs under
CtxOf(l) == CHOOSE c \in Ctxs : l \in CtxRange(c)

\* C23: every blocking sub-operation has a timeout of its own: when a
\* worker comes to a sub-operation the deadline that bounds it has not
\* passed already during an earlier one
C23_ScopedTimeouts ==
    [][\A w \in Workers :
          pc'[w] \in SubOps /\ pc'[w] # pc[w]
              => CtxOf(pc'[w]) \notin dead'[w]]_vars

\* the arguments of the apply pass as the descriptor's method and the
\* outcome of the external denoiser determine them
ArgsFor(method, denoiserFailed) ==
    [input |-> IF method = "noisereduce" /\ ~denoiserFailed
               THEN "denoised" ELSE "orig",
     chain |-> <<>>
        \o (IF method = "noisereduce" THEN <<>> ELSE <<Stage("afftdn", <<>>)>>)
        \o <<Stage("loudnorm", <<>>),
             Stage("acompressor", <<"0", ".", "1">>),
             Stage("alimiter", <<"0", ".", "8", "9", "1", "2", "5", "1">>),
             Stage("aresample", <<>>)>>]

C25_RefAfterUpload ==
    /\ \A j \in Jobs :
          s3ref[j] # "null"
              => uploads[j] # <<>> /\ uploads[j][Len(uploads[j])]
    /\ \A w \in Workers :
          pc[w] = "Storage" => uploads[JobOf(w)] = <<TRUE>>

\* the upload succeeded and the reference is stored
C25_Witness ==
    \E j \in Jobs : s3ref[j] = "set" /\ uploads[j] = <<TRUE>>

\* C26: a job has an error message only if its status is failed
C26_MessageOnlyWhenFailed ==
    \A j \in Jobs : errorMsg[j] # NoMsg => status[j] = "failed"

\* a job is failed and carries the engine's diagnostic text
C26_Witness ==
    \E j \in Jobs :
        /\ status[j] = "failed"
        /\ errorMsg[j].kind = "ffmpeg apply failed"
        /\ Returned(j)

\* an evaluation of GetNoiseLevel has returned
NoiseDone == calc.fn = "GetNoiseLevel" /\ calc.done

\* C27: the two estimators return a result whenever the engine's output
\* carries what they look for (a non-zero RMS reading; a mean_volume token),
\* and fail only when it does not: the result is the same whatever the exit
\* code of the engine
C27_ExitCodeIgnored ==
    /\ QualityDone =>
          /\ calc.res.ok <=> NonZeroLines(calc.lines, "RMS_level_dB") # {}
          /\ \A e \in ExitCodes : EstimateQualityRun(e, calc.lines) = calc.res
    /\ NoiseDone =>
          /\ calc.res.ok <=>
                \E i \in 1..Len(calc.lines) : calc.lines[i].label = "mean_volume"
          /\ \A e \in ExitCodes : GetNoiseLevel(e, calc.lines) = calc.res

\* the engine exited with a non-zero code and its output had an RMS reading:
\* the quality estimator returned its metrics
C27_Witness ==
    /\ QualityDone
    /\ calc.exit = 1
    /\ calc.res.ok
    /\ FloatIs(calc.res.RMSLevel, -40)

\* the chain builder has returned a second time
ChainDoneTwice == ChainDone /\ "again" \in DOMAIN calc

C29_NoTrailingZeros ==
    ChainDone =>
        \A t \in Dynamics :
            /\ t.text # <<>>
            /\ t.text[Len(t.text)] # "."
            /\ (\E i \in 1..Len(t.text) : t.text[i] = ".")
                  => t.text[Len(t.text)] # "0"
            /\ t.db = -2000 => t.text = <<"0", ".", "1">>
            /\ t.db = 0 => t.text = <<"1">>

\* a compressor threshold of -20 dB and a limiter threshold of 0 dB are
\* written 0.1 and 1
C29_Witness ==
    /\ ChainDone
    /\ [db |-> -2000, text |-> <<"0", ".", "1">>] \in Dynamics
    /\ [db |-> 0, text |-> <<"1">>] \in Dynamics

\* the lifecycle with its scheduling: the subscription callback and every
\* worker goroutine keep running while they have a step to take; every
\* blocking call of a worker returns, by its timeout at the latest
SpecLive ==
    /\ Init
    /\ [][Next]_vars
    /\ WF_vars(Dispatch)
    /\ \A w \in Workers : WF_vars(WorkerStep(w))

\* C30: when the outer context is never cancelled and the database refuses
\* no statement made under a live context, every job in processing
\* eventually is done or failed, also when the apply pass or the upload was
\* ended by its timeout
C30_EventuallyTerminal ==
    \A j \in Jobs :
        status[j] = "processing"
            ~> (status[j] \in {"done", "failed"} \/ cancelled \/ rejects > 0)

-----------------------------------------------------------------------------
\* The metrics sink, the queue and the stored snapshot

\* C31: the metrics sink is called once for every job that has reached a
\* terminal status, and the success flag it is given is true exactly when
\* the job ended done
C31_ObservedOncePerTerminalJob ==
    \A j \in Jobs :
        Returned(j) /\ status[j] \in {"done", "failed"}
            => /\ Len(observed[j]) = 1
               /\ observed[j][1] <=> status[j] = "done"

\* C32: once the outer context of the worker loop is cancelled no worker
\* takes a descriptor off jobCh: what is queued then stays queued
C32_NoReceiveAfterCancel ==
    [][cancelled => Len(jobCh') >= Len(jobCh)]_vars

-----------------------------------------------------------------------------
\* The denoise method as the descriptor spells it

\* the letters, and the characters strings.TrimSpace takes off
UpperChars ==
    <<"A", "B", "C", "D", "E", "F", "G", "H", "I", "J", "K", "L", "M",
      "N", "O", "P", "Q", "R", "S", "T", "U", "V", "W", "X", "Y", "Z">>
LowerChars ==
    <<"a", "b", "c", "d", "e", "f", "g", "h", "i", "j", "k", "l", "m",
      "n", "o", "p", "q", "r", "s", "t", "u", "v", "w", "x", "y", "z">>
SpaceChars == {" ", "\t", "\n", "\r"}

\* the method names a descriptor may carry, each as its characters
MethodChars ==
    [n \in {"", "none", "afftdn", "arnndn", "rnnoise", "noisereduce",
            "spectral"} |->
        CASE n = "" -> <<>>
          [] n = "none" -> <<"n", "o", "n", "e">>
          [] n = "afftdn" -> <<"a", "f", "f", "t", "d", "n">>
          [] n = "arnndn" -> <<"a", "r", "n", "n", "d", "n">>
          [] n = "rnnoise" -> <<"r", "n", "n", "o", "i", "s", "e">>
          [] n = "noisereduce" ->
                <<"n", "o", "i", "s", "e", "r", "e", "d", "u", "c", "e">>
          [] n = "spectral" -> <<"s", "p", "e", "c", "t", "r", "a", "l">>]

\* the upper-case letter of a lower-case one
UpperOf(c) ==
    IF \E i \in 1..26 : LowerChars[i] = c
    THEN UpperChars[CHOOSE i \in 1..26 : LowerChars[i] = c]
    ELSE c

\* the spellings of a name: as it is, capitalised, in capitals
Spellings(s) ==
    {s,
     [i \in 1..Len(s) |-> IF i = 1 THEN UpperOf(s[i]) ELSE s[i]],
     [i \in 1..Len(s) |-> UpperOf(s[i])]}

\* a spelling with white space around it
Paddings(s) ==
    {s, <<" ">> \o s, s \o <<" ">>, <<" ", "\t">> \o s \o <<" ">>,
     s \o <<"\r", "\n">>}

\* strings.ToLower
ToLower(s) ==
    [i \in 1..Len(s) |->
        IF \E k \in 1..26 : UpperChars[k] = s[i]
        THEN LowerChars[CHOOSE k \in 1..26 : UpperChars[k] = s[i]]
        ELSE s[i]]

\* strings.TrimSpace
RECURSIVE TrimSpace(_)
TrimSpace(s) ==
    IF s = <<>> THEN s
    ELSE IF Head(s) \in SpaceChars THEN TrimSpace(Tail(s))
    ELSE IF s[Len(s)] \in SpaceChars
         THEN TrimSpace(SubSeq(s, 1, Len(s) - 1))
         ELSE s

\* the string with these characters
StringOf(s) ==
    IF \E n \in DOMAIN MethodChars : MethodChars[n] = s
    THEN CHOOSE n \in DOMAIN MethodChars : MethodChars[n] = s
    ELSE "other"

\* dnMethod := strings.ToLower(strings.TrimSpace(opts.DenoiseMethod))
dnMethod(raw) == StringOf(ToLower(TrimSpace(raw)))

\* an evaluation of the denoise choice starts on some spelling of a name
InitResolve ==
    /\ Boot
    /\ calc \in {[fn |-> "DenoiseFilter", done |-> FALSE, name |-> n,
                  raw |-> r, hasArnndn |-> h, modelExists |-> e] :
                    n \in DOMAIN MethodChars,
                    r \in UNION {Paddings(s) : s \in
                                    UNION {Spellings(MethodChars[m]) :
                                              m \in DOMAIN MethodChars}},
                    h \in BOOLEAN, e \in BOOLEAN}
    /\ calc.raw \in UNION {Paddings(s) : s \in Spellings(MethodChars[calc.name])}

\* the denoise filter is chosen
DenoiseFilterChosen ==
    /\ calc.fn = "DenoiseFilter"
    /\ ~calc.done
    /\ calc' = [fn |-> calc.fn, done |-> TRUE, name |-> calc.name,
                raw |-> calc.raw, hasArnndn |-> calc.hasArnndn,
                modelExists |-> calc.modelExists,
                res |-> DenoiseFilter(dnMethod(calc.raw), calc.hasArnndn,
                                      calc.modelExists)]
    /\ UNCHANGED lifecycleVars

SpecResolve == InitResolve /\ [][DenoiseFilterChosen]_vars

\* the denoise choice has been made
ResolveDone == calc.fn = "DenoiseFilter" /\ calc.done

\* C34: the choice of the denoise filter is total: whatever the case and
\* the white space around it, a method that is neither the external gate
\* nor a neural name, the empty string and "none" among them, gets the
\* default spectral filter, which is then the first stage of the chain; the
\* external gate gets no filter of the engine; a neural name gets the
\* neural filter or the default one
C34_ResolutionTotal ==
    ResolveDone =>
        /\ calc.name \notin {"noisereduce", "arnndn", "rnnoise"}
              => /\ calc.res = Stage("afftdn", <<>>)
                 /\ FilterChain(calc.res, WorkerOptions(calc.name))[1].name
                        = "afftdn"
        /\ calc.name = "noisereduce" => calc.res = NoFilter
        /\ calc.name \in {"arnndn", "rnnoise"}
              => calc.res \in {Stage("arnndn", <<>>), Stage("afftdn", <<>>)}

\* the method " None " with white space around it got the default filter
C34_Witness ==
    /\ ResolveDone
    /\ calc.raw = <<" ", "\t", "N", "o", "n", "e", " ">>
    /\ calc.res = Stage("afftdn", <<>>)

\* C35: the loudness snapshot stored for a job is the map of the final
\* measurement, of the output file, whenever that measurement succeeded, and
\* otherwise the map of the first pass, empty when that failed too; the
\* metadata statement stores this snapshot as it is and nothing else does
C35_SnapshotPostElsePre ==
    /\ [][\A w \in Workers :
             pc[w] = "PostMeasure" /\ pc'[w] # "PostMeasure"
                 => stats'[w] = IF Live(w, "proc") /\ faults' = faults
                                THEN "post" ELSE loudnessMap[w]]_vars
    /\ [][\A j \in Jobs :
             meta'[j] # meta[j]
                 => \E w \in Workers :
                       /\ pc[w] = "Meta" /\ JobOf(w) = j
                       /\ meta'[j] = stats[w]]_vars
    /\ [](\A j \in Jobs :
             status[j] = "done" => meta[j] \in {"null", "post", "pre", "nil"})

\* a job is done and the snapshot stored for it is the final measurement
C35_Witness ==
    \E j \in Jobs :
        /\ Returned(j)
        /\ status[j] = "done"
        /\ meta[j] = "post"

\* C36: a job that is done has stored progress 100, also when the progress
\* write 100 before it was not applied, and a job that is failed has a
\* stored progress below 100
C36_ProgressMatchesStatus ==
    \A j \in Jobs :
        /\ status[j] = "done" => progress[j] = 100
        /\ status[j] = "failed" => progress[j] < 100

\* a job is done with progress 100 although the database refused one of the
\* statements of its worker
C36_Witness ==
    \E j \in Jobs :
        /\ Returned(j)
        /\ status[j] = "done"
        /\ progress[j] = 100
        /\ rejects = 1
        /\ progLog[j] = <<10, 20, 70, 100>>

====
